---- MODULE Spec2Model ----
(***************************************************************************)
(* A model of src/animator/animator.py: the Animator class (constructor,   *)
(* animate() and its key-press handler on_click) together with the part of *)
(* matplotlib's FuncAnimation it drives (timer, frame sequence, first      *)
(* draw, save), and the Plotter class (constructor, plot, scatter, quiver, *)
(* title) together with the pyplot calls it makes.                         *)
(*                                                                         *)
(* Python values that may be None are tagged records, so that None, an     *)
(* int, a str and a list are distinct values that can be compared.         *)
(***************************************************************************)
EXTENDS Integers, Sequences, FiniteSets, TLC

\* ---------------------------------------------------------------- bounds
\* Largest frame count given to the constructor.
MaxFrames == 2
\* Largest number of key presses delivered to one window.
MaxKeys == 3
\* Largest length of an array or colour list given to a Plotter.
MaxLen == 2

\* Most update calls followed for an animation without end (frames = None);
\* an animation with frames = N stays below it.
TickCap == MaxFrames + 1

\* ---------------------------------------------------------- Python values
None == [type |-> "NoneType"]
PyInt(n) == [type |-> "int", val |-> n]
PyStr(s) == [type |-> "str", val |-> s]
PyList(s) == [type |-> "list", val |-> s]
NdArray(s) == [type |-> "ndarray", val |-> s]

\* The timer object FuncAnimation creates for the figure's canvas.
Timer == [type |-> "Timer"]

\* 0, 1, ..., n-1 as a sequence: list(range(n)).
Range(n) == [i \in 1..n |-> i - 1]

\* ------------------------------------------------------------ key events
\* e.key is None or a string; strings are sequences of code points.
Key(codes) == [type |-> "str", val |-> codes]
Space == Key(<<32>>)
KeyA == Key(<<97>>)
KeyEnter == Key(<<101, 110, 116, 101, 114>>)
KeyCtrlSpace == Key(<<99, 116, 114, 108, 43, 32>>)
Keys == {Space, KeyA, KeyEnter, KeyCtrlSpace, None}

\* Code points str.isspace() counts as whitespace (those below 256).
WhitespaceCodes == {9, 10, 11, 12, 13, 28, 29, 30, 31, 32, 133, 160}

\* str.isspace(): at least one character and all of them whitespace.
isspace(s) == Len(s) > 0 /\ \A i \in 1..Len(s) : s[i] \in WhitespaceCodes

\* -------------------------------------------------------------- variables
VARIABLES
  pc,             \* where the program is: see AnimatorPcs and PlotterPcs
  args,           \* the arguments given to Animator(...)
  animator,       \* the Animator object's fields, None before construction
  anim,           \* the FuncAnimation object of animate(), None before it
  timer_started,  \* whether the animation's timer is started
  log,            \* what happened so far, in order: see the entries below
  shown,          \* whether plt.show() opened the interactive window
  saved,          \* the anim.save(...) call made, None when none was
  pargs,          \* the arguments given to Plotter(...)
  plotter,        \* the Plotter object's fields, None before construction
  call,           \* the arguments of the Plotter method called, None between calls
  lib             \* the pyplot calls that method made, in order

avars == <<args, animator, anim, timer_started, log, shown, saved>>
pvars == <<pargs, plotter, call, lib>>
vars == <<pc, avars, pvars>>

\* The entries of log: a call of the init callback, a call of the update
\* callback with a frame, a key press delivered to on_click, a call on_click
\* makes on the timer, and the animation releasing its event source.
InitCall == [op |-> "init"]
UpdateCall(frame) == [op |-> "update", frame |-> frame]
KeyEvent(key) == [op |-> "key", key |-> key]
TimerCall(what) == [op |-> what]
Released == [op |-> "released"]

IsUpdate(e) == e.op = "update"
IsKey(e) == e.op = "key"
IsSpaceKey(e) == e.op = "key" /\ e.key = Space
IsTimerCall(e) == e.op \in {"stop", "start"}

\* The frames update was called with, in order.
Updates(l) ==
  LET u == SelectSeq(l, IsUpdate) IN [i \in 1..Len(u) |-> u[i].frame]
\* How many key presses, and how many presses of space, were delivered.
KeyCount(l) == Len(SelectSeq(l, IsKey))
SpaceCount(l) == Len(SelectSeq(l, IsSpaceKey))

\* ======================================================= Animator.__init__
DefaultInterval == 100

AnimatorArgs ==
  [update : {"update"}, init : {"init"}, interval : {PyInt(DefaultInterval)},
   save : BOOLEAN, fps : {None, PyInt(30)},
   frames : {None} \cup {PyInt(n) : n \in 1..MaxFrames},
   name : {"simulation", "out"}]

\* A constructor that refuses every call without a frame count.
AnimatorInitRaisesMut(a) == a.frames = None

\* Whether Animator.__init__ raises AttributeError (lines 47-50).
AnimatorInitRaises(a) == a.frames = None /\ a.save

\* The fields of the object Animator.__init__ leaves behind.
AnimatorInitFields(a) ==
  [update |-> a.update, interval |-> a.interval, init |-> a.init,
   running |-> TRUE, save |-> a.save, fps |-> a.fps,
   cache_frame_data |-> (a.frames # None), frames |-> a.frames,
   name |-> a.name]

\* ==================================================== animate(): on_click
\* on_click without the test for a released event source.
on_clickNoGuard(event_source, running, key) ==
  IF key = None THEN [running |-> running, timer |-> "none"]
  ELSE IF isspace(key.val)
  THEN IF running THEN [running |-> FALSE, timer |-> "stop"]
       ELSE [running |-> TRUE, timer |-> "start"]
  ELSE [running |-> running, timer |-> "none"]

\* on_click without the test for the key.
on_clickAnyKey(event_source, running, key) ==
  IF event_source = None THEN [running |-> running, timer |-> "none"]
  ELSE IF running THEN [running |-> FALSE, timer |-> "stop"]
  ELSE [running |-> TRUE, timer |-> "start"]

\* on_click that clears the flag on pause but forgets to stop the timer.
on_clickNoStop(event_source, running, key) ==
  IF event_source = None \/ key = None
  THEN [running |-> running, timer |-> "none"]
  ELSE IF isspace(key.val)
  THEN IF running THEN [running |-> FALSE, timer |-> "none"]
       ELSE [running |-> TRUE, timer |-> "start"]
  ELSE [running |-> running, timer |-> "none"]

\* on_click that restarts the timer on resume but forgets to set the flag.
on_clickNoResumeFlag(event_source, running, key) ==
  IF event_source = None \/ key = None
  THEN [running |-> running, timer |-> "none"]
  ELSE IF isspace(key.val)
  THEN IF running THEN [running |-> FALSE, timer |-> "stop"]
       ELSE [running |-> FALSE, timer |-> "start"]
  ELSE [running |-> running, timer |-> "none"]

\* on_click(e) of animate() (lines 65-78): the new value of self.running and
\* the call made on anim.event_source ("stop", "start" or "none").  A key of
\* None makes e.key.isspace() raise AttributeError, which ends the handler
\* with nothing changed (the canvas reports the exception and goes on).
on_click(event_source, running, key) ==
  IF event_source = None THEN [running |-> running, timer |-> "none"]
  ELSE IF key = None THEN [running |-> running, timer |-> "none"]
  ELSE IF isspace(key.val)
  THEN IF running THEN [running |-> FALSE, timer |-> "stop"]
       ELSE [running |-> TRUE, timer |-> "start"]
  ELSE [running |-> running, timer |-> "none"]

\* ============================================ animate(): the two outputs
\* An animation that starts over when its frames are exhausted.
RepeatOn == TRUE

\* repeat=False in the FuncAnimation call (line 83).
Repeat == FALSE

\* An output choice with the test inverted.
OutputPathInverted(save) == IF save THEN "show" ELSE "save"

\* The branch animate() takes (lines 84-88).
OutputPath(save) == IF save THEN "save" ELSE "show"

\* The file anim.save is given (line 86): self.name + '.mp4'.
SaveFile(name) == name \o ".mp4"

\* The frames anim.save renders: the saved frame sequence of an animation
\* made with frames = N is range(N).
SavedFrames(frames) ==
  IF frames = None THEN Range(TickCap) ELSE Range(frames.val)

\* ================================================================ actions
AnimatorPcs == {"new", "raised", "constructed", "showing", "looping", "returned"}
PlotterPcs == {"pnew", "praised", "ready", "called"}

\* No Plotter is in use.
PlotterIdle ==
  /\ pargs = None
  /\ plotter = None
  /\ call = None
  /\ lib = <<>>

\* The program before Animator(...) is called, with the arguments chosen.
Init ==
  /\ pc = "new"
  /\ args \in AnimatorArgs
  /\ animator = None
  /\ anim = None
  /\ timer_started = FALSE
  /\ log = <<>>
  /\ shown = FALSE
  /\ saved = None
  /\ PlotterIdle

\* Animator.__init__ (lines 39-55): raises, or leaves the object behind.
Construct ==
  /\ pc = "new"
  /\ IF AnimatorInitRaises(args)
     THEN pc' = "raised" /\ animator' = animator
     ELSE pc' = "constructed" /\ animator' = AnimatorInitFields(args)
  /\ UNCHANGED <<args, anim, timer_started, log, shown, saved, pvars>>

\* animate() (lines 80-88): connects on_click, creates the FuncAnimation (its
\* timer is created stopped, its frame sequence is at its start), and then
\* either renders every frame to the file and returns, or opens the window.
\* anim.save calls init once and update once per saved frame, and never
\* starts the timer.
Animate ==
  /\ pc = "constructed"
  /\ anim' = [event_source |-> Timer, frame_seq |-> 0]
  /\ IF OutputPath(animator.save) = "save"
     THEN /\ saved' = [filename |-> SaveFile(animator.name), writer |-> "ffmpeg",
                       fps |-> animator.fps]
          /\ log' = log \o <<InitCall>> \o
                    [i \in 1..Len(SavedFrames(animator.frames)) |->
                       UpdateCall(SavedFrames(animator.frames)[i])]
          /\ shown' = shown
          /\ pc' = "returned"
     ELSE /\ shown' = TRUE
          /\ pc' = "showing"
          /\ UNCHANGED <<saved, log>>
  /\ UNCHANGED <<args, animator, timer_started, pvars>>

\* The window's first draw event (FuncAnimation's _start, connected by the
\* constructor called at line 81): init is called and the timer is started.
\* The window is drawn before it takes any input, so no key press comes
\* before this step.
FirstDraw ==
  /\ pc = "showing"
  /\ log' = Append(log, InitCall)
  /\ timer_started' = TRUE
  /\ pc' = "looping"
  /\ UNCHANGED <<args, animator, anim, shown, saved, pvars>>

\* Whether the frame sequence made from frames (line 82) is at its end.
Exhausted(frame_seq, frames) == frames # None /\ frame_seq >= frames.val

\* One firing of the started timer (FuncAnimation's _step): update is called
\* with the next frame; at the end of the frames, with repeat off (line 83),
\* the timer is stopped and anim.event_source becomes None; with repeat on,
\* init is called and the frame sequence starts again.
Tick ==
  /\ pc = "looping"
  /\ anim.event_source # None
  /\ timer_started
  /\ Len(Updates(log)) < TickCap
  /\ IF ~Exhausted(anim.frame_seq, animator.frames)
     THEN /\ log' = Append(log, UpdateCall(anim.frame_seq))
          /\ anim' = [anim EXCEPT !.frame_seq = @ + 1]
          /\ UNCHANGED timer_started
     ELSE IF Repeat
     THEN /\ log' = Append(log, InitCall)
          /\ anim' = [anim EXCEPT !.frame_seq = 0]
          /\ UNCHANGED timer_started
     ELSE /\ log' = Append(log, Released)
          /\ timer_started' = FALSE
          /\ anim' = [anim EXCEPT !.event_source = None]
  /\ UNCHANGED <<pc, args, animator, shown, saved, pvars>>

\* A key press in the open window, delivered to on_click (line 80).
KeyPress(key) ==
  /\ pc = "looping"
  /\ KeyCount(log) < MaxKeys
  /\ LET r == on_click(anim.event_source, animator.running, key) IN
       /\ animator' = [animator EXCEPT !.running = r.running]
       /\ timer_started' = CASE r.timer = "stop" -> FALSE
                             [] r.timer = "start" -> TRUE
                             [] OTHER -> timer_started
       /\ log' = IF r.timer = "none" THEN Append(log, KeyEvent(key))
                 ELSE log \o <<KeyEvent(key), TimerCall(r.timer)>>
  /\ UNCHANGED <<pc, args, anim, shown, saved, pvars>>

PressKey == \E key \in Keys : KeyPress(key)

Next == Construct \/ Animate \/ FirstDraw \/ Tick \/ PressKey

Spec == Init /\ [][Next]_vars

\* The program proceeds, the window is drawn, and a started timer fires.
FairSpec ==
  Spec /\ WF_vars(Construct) /\ WF_vars(Animate) /\ WF_vars(FirstDraw)
       /\ WF_vars(Tick)

\* ======================================================== Plotter.__init__
Colours == {"red", "blue"}
BuiltinColormaps == {"viridis"}

\* Sequences over S of length n, and of length at most n.
SeqsOfLen(S, n) == [1..n -> S]
SeqsUpTo(S, n) == UNION {SeqsOfLen(S, k) : k \in 0..n}

\* A Normalize object.
Normalize(vmin, vmax) == [type |-> "Normalize", vmin |-> vmin, vmax |-> vmax]

\* colormaps[name] for a registered name: the built-in colormap, 256 entries.
BuiltinColormap(name) == [type |-> "Colormap", name |-> name, N |-> 256]

\* ListedColormap(colors, name='custom', N=None): one entry per colour.
ListedColormap(colors) ==
  [type |-> "ListedColormap", name |-> "custom", colors |-> colors,
   N |-> Len(colors)]

PlotterArgs ==
  [standard : {None, PyStr("viridis"), PyStr("nosuch")},
   custom : {None} \cup {PyList(c) : c \in SeqsUpTo(Colours, MaxLen)},
   norm : {None, Normalize(0, 10)}]

\* colormaps[standard] raises KeyError for a name that is not registered
\* (line 111).
PlotterInitRaises(a) ==
  a.standard # None /\ a.standard.val \notin BuiltinColormaps

\* A constructor that looks at custom before standard.
PlotterInitFieldsCustomFirst(a) ==
  IF a.custom # None
  THEN [cmap |-> ListedColormap(a.custom.val),
        norm |-> Normalize(0, Len(a.custom.val) - 1)]
  ELSE IF a.standard # None
  THEN [cmap |-> BuiltinColormap(a.standard.val), norm |-> a.norm]
  ELSE [cmap |-> None, norm |-> a.norm]

\* The fields Plotter.__init__ leaves behind (lines 109-116).
PlotterInitFields(a) ==
  IF a.standard # None
  THEN [cmap |-> BuiltinColormap(a.standard.val), norm |-> a.norm]
  ELSE IF a.custom # None
  THEN [cmap |-> ListedColormap(a.custom.val),
        norm |-> Normalize(0, Len(a.custom.val) - 1)]
  ELSE [cmap |-> None, norm |-> a.norm]

\* ========================================================= Plotter methods
\* A scatter that hands c on as given.
scatter_cAsGiven(c, x) == c

\* What scatter makes of c (lines 155-156): anything that is not a list
\* becomes a list of len(x) copies of it.
scatter_c(c, x) ==
  IF c.type # "list" THEN PyList([i \in 1..Len(x) |-> c]) ELSE c

\* The pyplot calls of plot (lines 133-134).
plot(p, data) ==
  <<[fn |-> "cla"],
    [fn |-> "imshow", data |-> data, cmap |-> p.cmap, norm |-> p.norm]>>

\* The pyplot calls of scatter (lines 155-162).
scatter(p, x, y, xlim, ylim, c, redraw, s) ==
  (IF redraw THEN <<[fn |-> "cla"]>> ELSE <<>>) \o
  <<[fn |-> "scatter", x |-> x, y |-> y, c |-> scatter_c(c, x),
     cmap |-> p.cmap, norm |-> p.norm, s |-> s],
    [fn |-> "xlim", arg |-> xlim],
    [fn |-> "ylim", arg |-> ylim]>>

\* The pyplot calls of quiver (lines 187-190).
quiver(p, x, y, u, v, xlim, ylim) ==
  <<[fn |-> "cla"],
    [fn |-> "quiver", x |-> x, y |-> y, u |-> u, v |-> v,
     width |-> "0.005", scale |-> 30],
    [fn |-> "xlim", arg |-> xlim],
    [fn |-> "ylim", arg |-> ylim]>>

\* The call of title (line 208).
title(p, text) == <<[fn |-> "set_title", text |-> text]>>

\* The inputs the methods are given.
Values == {0, 1}
Arrays == UNION {SeqsOfLen(Values, n) : n \in 1..MaxLen}
Limits == {<<0, 1>>, <<0, 2>>}
MarkerAreas == {36, 4}
ColourArgs(n) ==
  {None, PyInt(1)} \cup {PyList(a) : a \in SeqsOfLen(Values, n)}
    \cup {NdArray(a) : a \in SeqsOfLen(Values, n)}

AnimatorIdle ==
  /\ args = None
  /\ animator = None
  /\ anim = None
  /\ timer_started = FALSE
  /\ log = <<>>
  /\ shown = FALSE
  /\ saved = None

\* The program before Plotter(...) is called, with the arguments chosen.
PlotterInit ==
  /\ pc = "pnew"
  /\ pargs \in PlotterArgs
  /\ plotter = None
  /\ call = None
  /\ lib = <<>>
  /\ AnimatorIdle

\* Plotter.__init__ (lines 109-116).
PlotterConstruct ==
  /\ pc = "pnew"
  /\ IF PlotterInitRaises(pargs)
     THEN pc' = "praised" /\ plotter' = plotter
     ELSE pc' = "ready" /\ plotter' = PlotterInitFields(pargs)
  /\ UNCHANGED <<pargs, call, lib, avars>>

\* plot(data) is called and makes its pyplot calls.
Plot ==
  /\ pc = "ready"
  /\ \E data \in Arrays :
       /\ call' = [method |-> "plot", data |-> data]
       /\ lib' = plot(plotter, data)
  /\ pc' = "called"
  /\ UNCHANGED <<pargs, plotter, avars>>

\* scatter(x, y, xlim, ylim, c, redraw, s) is called and makes its calls.
Scatter ==
  /\ pc = "ready"
  /\ \E x \in Arrays, xlim \in Limits, redraw \in BOOLEAN, s \in MarkerAreas :
       \E y \in SeqsOfLen(Values, Len(x)), c \in ColourArgs(Len(x)) :
         LET ylim == <<0, 1>> IN
         /\ call' = [method |-> "scatter", x |-> x, y |-> y, xlim |-> xlim,
                     ylim |-> ylim, c |-> c, redraw |-> redraw, s |-> s]
         /\ lib' = scatter(plotter, x, y, xlim, ylim, c, redraw, s)
  /\ pc' = "called"
  /\ UNCHANGED <<pargs, plotter, avars>>

\* quiver(x, y, u, v, xlim, ylim) is called and makes its calls.
Quiver ==
  /\ pc = "ready"
  /\ \E x \in Arrays, xlim \in Limits :
       \E y, u, v \in SeqsOfLen(Values, Len(x)) :
         LET ylim == <<0, 1>> IN
         /\ call' = [method |-> "quiver", x |-> x, y |-> y, u |-> u, v |-> v,
                     xlim |-> xlim, ylim |-> ylim]
         /\ lib' = quiver(plotter, x, y, u, v, xlim, ylim)
  /\ pc' = "called"
  /\ UNCHANGED <<pargs, plotter, avars>>

\* title(text) is called and makes its call.
Title ==
  /\ pc = "ready"
  /\ \E text \in {"generation 0", "generation 1"} :
       /\ call' = [method |-> "title", text |-> text]
       /\ lib' = title(plotter, text)
  /\ pc' = "called"
  /\ UNCHANGED <<pargs, plotter, avars>>

\* The method returns; the Plotter is as it was before the call.
Return ==
  /\ pc = "called"
  /\ pc' = "ready"
  /\ call' = None
  /\ lib' = <<>>
  /\ UNCHANGED <<pargs, plotter, avars>>

PlotterNext ==
  PlotterConstruct \/ Plot \/ Scatter \/ Quiver \/ Title \/ Return

PlotterSpec == PlotterInit /\ [][PlotterNext]_vars

\* The calls of lib to the pyplot function fn.
CallsTo(fn) == SelectSeq(lib, LAMBDA e : e.fn = fn)

\* The arguments of plot, quiver and the limits reach pyplot as given, and so
\* do x, y and s of scatter.
PassedThroughButC ==
  /\ call.method = "plot" =>
       /\ Len(CallsTo("imshow")) = 1
       /\ CallsTo("imshow")[1].data = call.data
  /\ call.method = "scatter" =>
       /\ Len(CallsTo("scatter")) = 1
       /\ CallsTo("scatter")[1].x = call.x
       /\ CallsTo("scatter")[1].y = call.y
       /\ CallsTo("scatter")[1].s = call.s
  /\ call.method = "quiver" =>
       /\ Len(CallsTo("quiver")) = 1
       /\ CallsTo("quiver")[1].x = call.x
       /\ CallsTo("quiver")[1].y = call.y
       /\ CallsTo("quiver")[1].u = call.u
       /\ CallsTo("quiver")[1].v = call.v
  /\ call.method \in {"scatter", "quiver"} =>
       /\ CallsTo("xlim") = <<[fn |-> "xlim", arg |-> call.xlim]>>
       /\ CallsTo("ylim") = <<[fn |-> "ylim", arg |-> call.ylim]>>

C5_ColormapByPriority ==
  pc = "ready" =>
    IF pargs.standard # None
    THEN /\ plotter.cmap.type = "Colormap"
         /\ plotter.cmap.name = pargs.standard.val
         /\ plotter.norm = pargs.norm
    ELSE IF pargs.custom # None
    THEN /\ plotter.cmap.type = "ListedColormap"
         /\ plotter.cmap.N = Len(pargs.custom.val)
         /\ plotter.cmap.colors = pargs.custom.val
         /\ plotter.norm.type = "Normalize"
         /\ plotter.norm.vmin = 0
         /\ plotter.norm.vmax = Len(pargs.custom.val) - 1
    ELSE /\ plotter.cmap = None
         /\ plotter.norm = pargs.norm

\* Two colours and a norm of the caller's: the norm is replaced by 0..1.
C5_Witness ==
  /\ pc = "ready"
  /\ pargs.standard = None
  /\ pargs.custom = PyList(<<"red", "blue">>)
  /\ pargs.norm = Normalize(0, 10)
  /\ plotter.cmap.N = 2
  /\ plotter.norm = Normalize(0, 1)

\* ================================================================= claims
\* The animation has ended: the file is rendered, or the frames are
\* exhausted and the event source is released.
Done ==
  \/ pc = "returned"
  \/ pc = "looping" /\ anim.event_source = None

\* The animation is held by a stopped timer.
Paused == pc = "looping" /\ anim.event_source # None /\ ~timer_started

\* The key of a key press is not whitespace.
NotWhitespace(key) == key = None \/ ~isspace(key.val)

\* How many calls on_click made on the timer.
TimerCallCount(l) == Len(SelectSeq(l, IsTimerCall))

\* C1: the constructor raises AttributeError exactly when save is true and
\* frames is None; in every other case it completes and leaves running = True.
C1_RaisesExactlyWhenSaveWithoutFrames ==
  /\ pc = "raised" => (args.save /\ args.frames = None)
  /\ pc \in AnimatorPcs \ {"new", "raised"} =>
       /\ ~(args.save /\ args.frames = None)
       /\ animator # None
  /\ pc = "constructed" => animator.running = TRUE
  /\ pc = "raised" => animator = None

C1_Witness == pc = "raised" /\ args.save /\ args.frames = None

\* C2 as stated: after any k presses of space during animate(), running is
\* True iff k is even.
C2_EverySpacePressFlips ==
  pc = "looping" => (animator.running <=> SpaceCount(log) % 2 = 0)

\* C2 as amended: a press of space delivered while the animation's event
\* source is not None negates running, stops the timer when running was True
\* and starts it when running was False; so while the event source is not
\* None, running is True iff the number of space presses so far is even.
C2_SpacePressFlipsWhileEventSource ==
  /\ [](pc = "looping" /\ anim.event_source # None
          => (animator.running <=> SpaceCount(log) % 2 = 0))
  /\ [][(pc = "looping" /\ anim.event_source # None
           /\ SpaceCount(log') > SpaceCount(log))
        => /\ animator'.running = ~animator.running
           /\ timer_started' = ~animator.running
           /\ log'[Len(log')] =
                TimerCall(IF animator.running THEN "stop" ELSE "start")]_vars

C2_Witness ==
  /\ pc = "looping"
  /\ anim.event_source # None
  /\ SpaceCount(log) = 2
  /\ animator.running
  /\ timer_started

\* C3: in every state reached from animate() by timer ticks, key presses and
\* the frames running out, running is True iff the animation's timer (event
\* source) exists and is started.
C3_RunningIffTimerStarted ==
  pc = "looping" =>
    (animator.running <=> (anim.event_source # None /\ timer_started))

\* C6: animate() takes exactly one output path, chosen by save: with save it
\* renders to name + '.mp4' at the configured fps and never opens the window;
\* without save it opens the window and never writes a file.
C6_ExactlyOneOutputPath ==
  /\ pc \in {"new", "raised", "constructed"} => (saved = None /\ ~shown)
  /\ pc \in {"showing", "looping", "returned"} =>
       IF args.save
       THEN /\ saved = [filename |-> args.name \o ".mp4", writer |-> "ffmpeg",
                        fps |-> args.fps]
            /\ ~shown
            /\ pc = "returned"
       ELSE /\ shown
            /\ saved = None
            /\ pc # "returned"

C6_Witness ==
  /\ pc = "returned"
  /\ saved # None
  /\ saved.filename = "out.mp4"
  /\ saved.fps = PyInt(30)

\* C7: while running is False after a press of space, update is not called
\* and the frame sequence does not move; the frames update is called with
\* are 0, 1, 2, ... with none skipped or repeated, pauses or not.
C7_PauseHoldsFrames ==
  /\ [](pc \in {"showing", "looping"} =>
          /\ Updates(log) = Range(Len(Updates(log)))
          /\ anim.event_source # None => anim.frame_seq = Len(Updates(log)))
  /\ [][(pc = "looping" /\ ~animator.running)
        => (Updates(log') = Updates(log) /\ anim'.frame_seq = anim.frame_seq)]_vars

\* A frame, a pause, a resume and the next frame, in this order.
C7_Witness ==
  \E a, b, c, d \in 1..Len(log) :
    /\ a < b /\ b < c /\ c < d
    /\ log[a] = UpdateCall(0)
    /\ log[b] = TimerCall("stop")
    /\ log[c] = TimerCall("start")
    /\ log[d] = UpdateCall(1)

C9_KeyPressAfterReleaseIsNoOp ==
  [][(pc = "looping" /\ anim.event_source = None
        /\ KeyCount(log') > KeyCount(log))
     => /\ animator' = animator
        /\ timer_started' = timer_started
        /\ TimerCallCount(log') = TimerCallCount(log)]_vars

C9_Witness ==
  \E i, j \in 1..Len(log) :
    i < j /\ log[i] = Released /\ log[j] = KeyEvent(Space)

\* C10: a key press whose key is not whitespace leaves running and the
\* timer's started/stopped state unchanged, in every state of the animation.
C10_OtherKeysChangeNothing ==
  [][(KeyCount(log') > KeyCount(log) /\ NotWhitespace(log'[Len(log) + 1].key))
     => /\ animator'.running = animator.running
        /\ timer_started' = timer_started
        /\ TimerCallCount(log') = TimerCallCount(log)]_vars

\* A key that is no whitespace was pressed while running, and one while
\* paused.
C10_Witness ==
  \E i, j, k \in 1..Len(log) :
    /\ i < j /\ j < k
    /\ log[i] = KeyEvent(KeyA)
    /\ log[j] = TimerCall("stop")
    /\ log[k] = KeyEvent(KeyCtrlSpace)

====
